---------------------------- MODULE Spec2Model ----------------------------
(***************************************************************************)
(* A model of the leibniz-lang runtime (src/src/runtime.rs): the value     *)
(* algebra (Value and its operators) and the tree-walking evaluator        *)
(* (RuntimeState::evaluate) with its globals / locals / functions tables   *)
(* and the in_function flag.                                               *)
(*                                                                         *)
(* f64 is modelled by exact rationals [c |-> "fin", n, d] (d > 0, lowest   *)
(* terms) together with the IEEE specials "inf", "ninf", "nan" and the     *)
(* class "irr": a finite double whose value the model does not track (the  *)
(* result of a transcendental function away from its exact points).        *)
(* Signed zeros and rounding are not modelled.                             *)
(***************************************************************************)
EXTENDS Integers, Sequences, FiniteSets, TLC

VARIABLES
    globals,      \* RuntimeState.globals   : name -> Value
    locals,       \* RuntimeState.locals    : name -> Value
    functions,    \* RuntimeState.functions : name -> FunctionDeclaration node
    in_function,  \* RuntimeState.in_function
    out,          \* the values printed by the print builtin, in order
    new_locals,   \* new_locals of the root Tree being evaluated
    status,       \* "running", "done" (root Tree returned Ok), "error", "hang"
    steps,        \* number of nodes of the root Tree evaluated so far
    last,         \* the last node evaluated with the states around it
    hist,         \* observations of the run that the properties refer to
    alg,          \* operands and result of the last value-algebra operation
    fact,         \* the Factorial node's integer loop, step by step
    gam,          \* the calls of Value::gamma for one argument, step by step
    overflow_checks \* the build: TRUE panics on integer overflow, FALSE wraps

vars == <<globals, locals, functions, in_function, out, new_locals, status,
          steps, last, hist, alg, fact, gam, overflow_checks>>

----------------------------------------------------------------------------
(* f64 *)

Abs(i) == IF i < 0 THEN -i ELSE i

RECURSIVE GCD(_, _)
GCD(a, b) == IF b = 0 THEN a ELSE GCD(b, a % b)

Fin(n, d) ==
    LET s == IF d < 0 THEN -1 ELSE 1
        g == GCD(Abs(n), Abs(d))
    IN  [c |-> "fin", n |-> (s * n) \div g, d |-> (s * d) \div g]

F(i) == [c |-> "fin", n |-> i, d |-> 1]
NaN  == [c |-> "nan", n |-> 0, d |-> 1]
PInf == [c |-> "inf", n |-> 0, d |-> 1]
NInf == [c |-> "ninf", n |-> 0, d |-> 1]
Irr  == [c |-> "irr", n |-> 0, d |-> 1]

IsFin(a) == a.c = "fin"
\* -1, 0, 1 for a tracked value other than NaN
Sign(a) == CASE a.c = "inf" -> 1
             [] a.c = "ninf" -> -1
             [] a.c = "fin" -> IF a.n > 0 THEN 1 ELSE IF a.n < 0 THEN -1 ELSE 0

FNeg(a) == CASE a.c = "fin" -> Fin(-a.n, a.d)
             [] a.c = "inf" -> NInf
             [] a.c = "ninf" -> PInf
             [] OTHER -> a

FAdd(a, b) ==
    CASE a.c = "nan" \/ b.c = "nan" -> NaN
      [] a.c = "fin" /\ b.c = "fin" -> Fin(a.n * b.d + b.n * a.d, a.d * b.d)
      [] a.c \in {"inf", "ninf"} /\ b.c \in {"inf", "ninf"} ->
            IF a.c = b.c THEN a ELSE NaN
      [] a.c \in {"inf", "ninf"} -> a
      [] b.c \in {"inf", "ninf"} -> b
      [] OTHER -> Irr

FSub(a, b) == FAdd(a, FNeg(b))

FMul(a, b) ==
    CASE a.c = "nan" \/ b.c = "nan" -> NaN
      [] a.c = "fin" /\ b.c = "fin" -> Fin(a.n * b.n, a.d * b.d)
      [] a.c = "irr" /\ b.c = "irr" -> Irr
      [] a.c = "irr" -> IF b.c = "fin" /\ b.n = 0 THEN F(0) ELSE Irr
      [] b.c = "irr" -> IF a.c = "fin" /\ a.n = 0 THEN F(0) ELSE Irr
      [] OTHER -> \* an infinity times a tracked value
            IF Sign(a) * Sign(b) = 0 THEN NaN
            ELSE IF Sign(a) * Sign(b) > 0 THEN PInf ELSE NInf

FDiv(a, b) ==
    CASE a.c = "nan" \/ b.c = "nan" -> NaN
      [] a.c = "fin" /\ b.c = "fin" ->
            IF b.n # 0 THEN Fin(a.n * b.d, a.d * b.n)
            ELSE IF a.n = 0 THEN NaN
            ELSE IF a.n > 0 THEN PInf ELSE NInf
      [] a.c \in {"inf", "ninf"} /\ b.c \in {"inf", "ninf"} -> NaN
      [] a.c \in {"fin", "irr"} /\ b.c \in {"inf", "ninf"} -> F(0)
      [] a.c \in {"inf", "ninf"} /\ b.c = "fin" ->
            IF Sign(a) * Sign(b) < 0 THEN NInf ELSE PInf
      [] OTHER -> Irr

\* the IEEE comparisons: every comparison with NaN is false
FEq(a, b) == a.c # "nan" /\ b.c # "nan" /\ a = b
FLt(a, b) ==
    CASE a.c = "nan" \/ b.c = "nan" -> FALSE
      [] a.c = "fin" /\ b.c = "fin" -> a.n * b.d < b.n * a.d
      [] a.c = "ninf" -> b.c # "ninf"
      [] b.c = "inf" -> a.c # "inf"
      [] a.c = "inf" \/ b.c = "ninf" -> FALSE
FGt(a, b) == FLt(b, a)
FLe(a, b) == FLt(a, b) \/ FEq(a, b)
FGe(a, b) == FLe(b, a)

\* f64::fract() != 0.0 : the value has a fractional part (NaN for infinities)
HasFract(a) == CASE a.c = "fin" -> a.d # 1
                 [] OTHER -> TRUE
\* truncation toward zero: x - x % 1
FTrunc(a) ==
    CASE a.c = "fin" -> IF a.n >= 0 THEN F(a.n \div a.d) ELSE F(-((-a.n) \div a.d))
      [] a.c \in {"inf", "ninf", "nan"} -> NaN
      [] OTHER -> Irr

RECURSIVE IPow(_, _)
IPow(b, k) == IF k = 0 THEN 1 ELSE b * IPow(b, k - 1)

\* f64::powf: exact for an integer exponent, untracked otherwise
FPow(a, r) ==
    CASE r.c = "fin" /\ r.n = 0 -> F(1)
      [] a.c = "nan" \/ r.c = "nan" -> NaN
      [] a.c = "fin" /\ r.c = "fin" /\ r.d = 1 /\ r.n > 0 ->
            Fin(IPow(a.n, r.n), IPow(a.d, r.n))
      [] a.c = "fin" /\ r.c = "fin" /\ r.d = 1 /\ r.n < 0 ->
            IF a.n = 0 THEN PInf ELSE Fin(IPow(a.d, -r.n), IPow(a.n, -r.n))
      [] a.c = "fin" /\ r.c = "fin" /\ r.d # 1 ->
            IF a.n < 0 THEN NaN ELSE IF a.n = 0 THEN F(0)
            ELSE IF a.n = a.d THEN F(1) ELSE Irr
      [] OTHER -> Irr

----------------------------------------------------------------------------
(* Complex64 (num_complex) *)

Cx(re, im) == [re |-> re, im |-> im]
CAdd(a, b) == Cx(FAdd(a.re, b.re), FAdd(a.im, b.im))
CSub(a, b) == Cx(FSub(a.re, b.re), FSub(a.im, b.im))
CMul(a, b) == Cx(FSub(FMul(a.re, b.re), FMul(a.im, b.im)),
                 FAdd(FMul(a.re, b.im), FMul(a.im, b.re)))
NormSqr(a) == FAdd(FMul(a.re, a.re), FMul(a.im, a.im))
CDiv(a, b) ==
    Cx(FDiv(FAdd(FMul(a.re, b.re), FMul(a.im, b.im)), NormSqr(b)),
       FDiv(FSub(FMul(a.im, b.re), FMul(a.re, b.im)), NormSqr(b)))
CRem(a, b) ==
    LET q == CDiv(a, b)
    IN  CSub(a, CMul(b, Cx(FTrunc(q.re), FTrunc(q.im))))
\* powc goes through polar form: exact only for a positive real base and a
\* real integer exponent
CPow(a, b) ==
    IF /\ a.re.c = "fin" /\ a.re.n > 0 /\ FEq(a.im, F(0))
       /\ b.re.c = "fin" /\ b.re.d = 1 /\ FEq(b.im, F(0))
    THEN Cx(FPow(a.re, b.re), F(0))
    ELSE Cx(Irr, Irr)

----------------------------------------------------------------------------
(* Value *)

Number(re, im) == [k |-> "Num", re |-> re, im |-> im]
Vector(x, y)   == [k |-> "Vec", x |-> x, y |-> y]
Array(els)     == [k |-> "Arr", els |-> els]
real(r)        == Number(r, F(0))
imaginary(i)   == Number(F(0), i)
CxOf(v)        == Cx(v.re, v.im)
NumOf(c)       == Number(c.re, c.im)

Ok(v)  == [ok |-> TRUE, val |-> v]
Err(m) == [ok |-> FALSE, msg |-> m]

\* impl PartialEq for Value
eq_arrays_structural(a, b) ==
    CASE a.k = "Num" -> b.k = "Num" /\ FEq(a.re, b.re) /\ FEq(a.im, b.im)
      [] a.k = "Vec" -> b.k = "Vec" /\ FEq(a.x, b.x) /\ FEq(a.y, b.y)
      [] a.k = "Arr" -> b.k = "Arr" /\ a.els = b.els
eq(a, b) ==
    CASE a.k = "Num" -> b.k = "Num" /\ FEq(a.re, b.re) /\ FEq(a.im, b.im)
      [] a.k = "Vec" -> b.k = "Vec" /\ FEq(a.x, b.x) /\ FEq(a.y, b.y)
      [] a.k = "Arr" -> FALSE

\* Value::push
push(self, val) ==
    IF self.k = "Arr" THEN Array(Append(self.els, val)) ELSE self

\* impl ops::Add<Value> for Value
add_appends_rhs(self, rhs) ==
    CASE self.k = "Num" /\ rhs.k = "Num" -> Ok(NumOf(CAdd(CxOf(self), CxOf(rhs))))
      [] self.k = "Num" /\ rhs.k = "Vec" -> Err("cannot add a number to a vector")
      [] self.k = "Num" /\ rhs.k = "Arr" -> Ok(push(rhs, rhs))
      [] self.k = "Vec" /\ rhs.k = "Num" -> Err("cannot add a vector to a number")
      [] self.k = "Vec" /\ rhs.k = "Vec" ->
            Ok(Vector(FAdd(self.x, rhs.x), FAdd(self.y, rhs.y)))
      [] self.k = "Vec" /\ rhs.k = "Arr" -> Ok(push(rhs, rhs))
      [] self.k = "Arr" -> Ok(push(self, rhs))
add(self, rhs) ==
    CASE self.k = "Num" /\ rhs.k = "Num" -> Ok(NumOf(CAdd(CxOf(self), CxOf(rhs))))
      [] self.k = "Num" /\ rhs.k = "Vec" -> Err("cannot add a number to a vector")
      [] self.k = "Num" /\ rhs.k = "Arr" -> Ok(push(rhs, self))
      [] self.k = "Vec" /\ rhs.k = "Num" -> Err("cannot add a vector to a number")
      [] self.k = "Vec" /\ rhs.k = "Vec" ->
            Ok(Vector(FAdd(self.x, rhs.x), FAdd(self.y, rhs.y)))
      [] self.k = "Vec" /\ rhs.k = "Arr" -> Ok(push(rhs, self))
      [] self.k = "Arr" -> Ok(push(self, rhs))

\* impl ops::Sub<Value> for Value
sub(self, rhs) ==
    CASE self.k = "Num" /\ rhs.k = "Num" -> Ok(NumOf(CSub(CxOf(self), CxOf(rhs))))
      [] self.k = "Num" /\ rhs.k = "Vec" -> Err("cannot subtract a number from a vector")
      [] self.k = "Num" /\ rhs.k = "Arr" -> Err("cannot subtract an array from a number")
      [] self.k = "Vec" /\ rhs.k = "Num" -> Err("cannot subtract a vector from a number")
      [] self.k = "Vec" /\ rhs.k = "Vec" ->
            Ok(Vector(FSub(self.x, rhs.x), FSub(self.y, rhs.y)))
      [] self.k = "Vec" /\ rhs.k = "Arr" -> Err("cannot subtract an array from a vector")
      [] self.k = "Arr" /\ rhs.k = "Num" -> Err("cannot subtract a number from an array")
      [] self.k = "Arr" /\ rhs.k = "Vec" -> Err("cannot subtract a vector from an array")
      [] self.k = "Arr" /\ rhs.k = "Arr" -> Err("cannot subtract an array from an array")

\* impl ops::Mul<Value> for Value
mul(self, rhs) ==
    CASE self.k = "Num" /\ rhs.k = "Num" -> Ok(NumOf(CMul(CxOf(self), CxOf(rhs))))
      [] self.k = "Num" /\ rhs.k = "Vec" ->
            IF ~FEq(self.im, F(0))
            THEN Err("cannot multiply a vector with a complex number")
            ELSE Ok(Vector(FMul(rhs.x, self.re), FMul(rhs.y, self.re)))
      [] self.k = "Num" /\ rhs.k = "Arr" -> Err("cannot multiply a number by an array")
      [] self.k = "Vec" /\ rhs.k = "Num" ->
            IF ~FEq(rhs.im, F(0))
            THEN Err("cannot multiply a vector with a complex number")
            ELSE Ok(Vector(FMul(self.x, rhs.re), FMul(self.y, rhs.re)))
      [] self.k = "Vec" /\ rhs.k = "Vec" ->
            Err("cannot multiply a vector with a vector. use dot(vector, vector) or cross(vector, vector) instead")
      [] self.k = "Vec" /\ rhs.k = "Arr" -> Err("cannot multiply an array with a vector")
      [] self.k = "Arr" /\ rhs.k = "Num" -> Err("cannot multiply an array by a number")
      [] self.k = "Arr" /\ rhs.k = "Vec" -> Err("cannot multiply an array with a vector")
      [] self.k = "Arr" /\ rhs.k = "Arr" -> Err("cannot multiply an array by an array")

\* impl ops::Div<Value> for Value
div_number_over_vector(self, rhs) ==
    CASE self.k = "Num" /\ rhs.k = "Num" -> Ok(NumOf(CDiv(CxOf(self), CxOf(rhs))))
      [] self.k = "Num" /\ rhs.k = "Vec" ->
            IF ~FEq(self.im, F(0))
            THEN Err("cannot divide a vector by a complex number")
            ELSE Ok(Vector(FDiv(self.re, rhs.x), FDiv(self.re, rhs.y)))
      [] self.k = "Vec" /\ rhs.k = "Num" ->
            IF ~FEq(rhs.im, F(0))
            THEN Err("cannot divide a vector by a complex number")
            ELSE Ok(Vector(FDiv(self.x, rhs.re), FDiv(self.y, rhs.re)))
      [] OTHER -> Err("cannot divide")
div(self, rhs) ==
    CASE self.k = "Num" /\ rhs.k = "Num" -> Ok(NumOf(CDiv(CxOf(self), CxOf(rhs))))
      [] self.k = "Num" /\ rhs.k = "Vec" ->
            IF ~FEq(self.im, F(0))
            THEN Err("cannot divide a vector by a complex number")
            ELSE Ok(Vector(FDiv(rhs.x, self.re), FDiv(rhs.y, self.re)))
      [] self.k = "Num" /\ rhs.k = "Arr" -> Err("cannot divide a number by an array")
      [] self.k = "Vec" /\ rhs.k = "Num" ->
            IF ~FEq(rhs.im, F(0))
            THEN Err("cannot divide a vector by a complex number")
            ELSE Ok(Vector(FDiv(self.x, rhs.re), FDiv(self.y, rhs.re)))
      [] self.k = "Vec" /\ rhs.k = "Vec" -> Err("cannot divide a vector by a vector")
      [] self.k = "Vec" /\ rhs.k = "Arr" -> Err("cannot divide a vector by an array")
      [] self.k = "Arr" /\ rhs.k = "Num" -> Err("cannot divide an array by a number")
      [] self.k = "Arr" /\ rhs.k = "Vec" -> Err("cannot divide an array by a vector")
      [] self.k = "Arr" /\ rhs.k = "Arr" -> Err("cannot divide an array by an array")

\* impl ops::Rem<Value> for Value
rem(self, rhs) ==
    CASE self.k = "Num" /\ rhs.k = "Num" -> Ok(NumOf(CRem(CxOf(self), CxOf(rhs))))
      [] self.k = "Num" /\ rhs.k = "Vec" -> Err("cannot find remainder between number and vector")
      [] self.k = "Num" /\ rhs.k = "Arr" -> Err("cannot find remainder of number in terms of array")
      [] self.k = "Vec" /\ rhs.k = "Num" -> Err("cannot find remainder between vector and number")
      [] self.k = "Vec" /\ rhs.k = "Vec" -> Err("cannot find remainder between vector and vector")
      [] self.k = "Vec" /\ rhs.k = "Arr" -> Err("cannot find remainder between vector and array")
      [] self.k = "Arr" /\ rhs.k = "Num" -> Err("cannot find remainder between arraay and number")
      [] self.k = "Arr" /\ rhs.k = "Vec" -> Err("cannot find remainder between array and number")
      [] self.k = "Arr" /\ rhs.k = "Arr" -> Err("cannot find remainder between array and array")

\* Value::pow
pow(self, rhs) ==
    CASE self.k = "Num" /\ rhs.k = "Num" ->
            IF FEq(self.im, F(0)) /\ FEq(self.re, F(0)) THEN Ok(real(F(0)))
            ELSE IF FEq(rhs.im, F(0)) /\ FEq(rhs.re, F(0)) THEN Ok(real(F(1)))
            ELSE Ok(NumOf(CPow(CxOf(self), CxOf(rhs))))
      [] self.k = "Num" /\ rhs.k = "Vec" -> Err("cannot raise a number to a vector power")
      [] self.k = "Num" /\ rhs.k = "Arr" -> Err("cannot raise a number to an array power")
      [] self.k = "Vec" /\ rhs.k = "Num" ->
            IF ~FEq(rhs.im, F(0))
            THEN Err("cannot raise vector to a complex power")
            ELSE Ok(Vector(FPow(self.x, rhs.re), FPow(self.y, rhs.re)))
      [] self.k = "Vec" /\ rhs.k = "Vec" -> Err("cannot raise a vector to a vector power")
      [] self.k = "Vec" /\ rhs.k = "Arr" -> Err("cannot raise a vector to an array power")
      [] self.k = "Arr" /\ rhs.k = "Num" -> Err("cannot raise array to a number power")
      [] self.k = "Arr" /\ rhs.k = "Vec" -> Err("cannot raise array to a vector power")
      [] self.k = "Arr" /\ rhs.k = "Arr" -> Err("cannot raise array to an array power")

\* Value::equals
equals(self, rhs) == IF eq(self, rhs) THEN real(F(1)) ELSE real(F(0))

\* Value::greater_than: Numbers are compared by modulus (here by its
\* square), every other pair of kinds fails
greater_than(self, rhs) ==
    IF self.k = "Num" /\ rhs.k = "Num"
    THEN Ok(IF FGt(NormSqr(self), NormSqr(rhs)) THEN Number(F(1), F(0))
                                               ELSE Number(F(0), F(0)))
    ELSE Err("cannot compare greater-than")
\* Value::less_than
less_than(self, rhs) ==
    IF self.k = "Num" /\ rhs.k = "Num"
    THEN Ok(IF FLt(NormSqr(self), NormSqr(rhs)) THEN Number(F(1), F(0))
                                               ELSE Number(F(0), F(0)))
    ELSE Err("cannot compare less-than")
\* Value::greater_than_or_equals
greater_than_or_equals(self, rhs) ==
    IF self.k = "Num" /\ rhs.k = "Num"
    THEN Ok(IF FGe(NormSqr(self), NormSqr(rhs)) THEN Number(F(1), F(0))
                                               ELSE Number(F(0), F(0)))
    ELSE Err("cannot compare greater-than-or-equals")
\* Value::less_than_or_equals
less_than_or_equals(self, rhs) ==
    IF self.k = "Num" /\ rhs.k = "Num"
    THEN Ok(IF FLe(NormSqr(self), NormSqr(rhs)) THEN Number(F(1), F(0))
                                               ELSE Number(F(0), F(0)))
    ELSE Err("cannot compare less-than-or-equals")

\* Value::expect_real
expect_real(v, message) ==
    IF v.k = "Num" /\ FEq(v.im, F(0)) THEN Ok(v.re) ELSE Err(message)
\* Value::expect_complex
expect_complex(v, message) ==
    IF v.k = "Num" THEN Ok(Cx(v.re, v.im)) ELSE Err(message)
\* Value::expect_vector
expect_vector(v, message) ==
    IF v.k = "Vec" THEN Ok(v) ELSE Err(message)
\* Value::expect_array
expect_array(v, message) ==
    IF v.k = "Arr" THEN Ok(v.els) ELSE Err(message)

\* std::mem::size_of::<Value>() on a 64-bit target
ValueSize == 24

\* Value::mem_size
RECURSIVE mem_size(_)
RECURSIVE mem_size_sum(_)
mem_size_sum(els) ==
    IF els = <<>> THEN 0 ELSE mem_size(Head(els)) + mem_size_sum(Tail(els))
mem_size(v) ==
    IF v.k = "Arr" THEN ValueSize + mem_size_sum(v.els) ELSE ValueSize

\* Complex64::sin: exact at 0, untracked elsewhere, real for a real argument
CSin(c) ==
    Cx(IF FEq(c.re, F(0)) /\ FEq(c.im, F(0)) THEN F(0) ELSE Irr,
       IF FEq(c.im, F(0)) THEN F(0) ELSE Irr)

\* pi / (((pi * c).sin()) * (1.0 - c)): the argument of the recursive call
\* of Value::gamma (pi is a double the model does not track)
reflection(c) ==
    CDiv(Cx(Irr, F(0)),
         CMul(CSin(CMul(Cx(Irr, F(0)), c)), CSub(Cx(F(1), F(0)), c)))

\* the else branch of Value::gamma: the Lanczos sum over P and the product
\* (2 pi).sqrt() * t.powc(c + 0.5) * (-t).exp() * x go through powc, exp and
\* sqrt, so the result is a double the model does not track; it is NaN for a
\* NaN argument and real for a real argument
lanczos(c) ==
    IF c.re.c = "nan" \/ c.im.c = "nan" THEN Number(NaN, NaN)
    ELSE Number(Irr, IF FEq(c.im, F(0)) THEN F(0) ELSE Irr)

\* c.re < 0.5, for a real part the model tracks
below_half(c) == c.re.c # "irr" /\ FLt(c.re, Fin(1, 2))

\* Value::gamma: one recursive call is unfolded; the result of a call whose
\* argument has an untracked real part is untracked
gamma(self) ==
    IF self.k # "Num" THEN Err("cannot calculate gamma for non-number")
    ELSE IF self.re.c = "irr" THEN Ok(Number(Irr, Irr))
    ELSE IF below_half(CxOf(self))
    THEN IF reflection(CxOf(self)).re.c = "irr" THEN Ok(Number(Irr, Irr))
         ELSE Ok(lanczos(reflection(CxOf(self))))
    ELSE Ok(lanczos(CxOf(self)))

----------------------------------------------------------------------------
(* i64 arithmetic of the Factorial node, on 4 limbs of 16 bits (least      *)
(* significant first), so that the products wrap at 2^64 as in the code    *)

LimbBase == 65536
I64Limbs == 4

RECURSIVE MulSmall(_, _, _)
\* limbs * m + carry, as a limb sequence one limb longer than limbs
MulSmall(limbs, m, carry) ==
    IF limbs = <<>> THEN <<carry>>
    ELSE LET p == Head(limbs) * m + carry
         IN  <<p % LimbBase>> \o MulSmall(Tail(limbs), m, p \div LimbBase)

I64Of(n) == <<n % LimbBase, n \div LimbBase, 0, 0>>
\* the wrapped product and whether the multiplication overflows i64
WrapMul(limbs, m) == SubSeq(MulSmall(limbs, m, 0), 1, I64Limbs)
Overflows(limbs, m) ==
    LET p == MulSmall(limbs, m, 0)
    IN  p[I64Limbs + 1] # 0 \/ p[I64Limbs] >= LimbBase \div 2


\* factorial = c.re as i64; for n in (2..c.re as i64).rev() { factorial *= n }
\* (the accumulator is positive until the first overflow, where a build with
\* overflow checks panics and a build without them wraps)
RECURSIVE factorial_loop(_, _, _)
factorial_loop(limbs, n, checks) ==
    IF n < 2 THEN [panic |-> FALSE, limbs |-> limbs]
    ELSE IF checks /\ Overflows(limbs, n) THEN [panic |-> TRUE, limbs |-> limbs]
    ELSE factorial_loop(WrapMul(limbs, n), n - 1, checks)

\* factorial as f64: the products of the loop carry enough trailing zero bits
\* for the cast to be exact; a value beyond the model's integers keeps its limbs
I64ToF64(limbs) ==
    IF limbs[3] = 0 /\ limbs[4] = 0 /\ limbs[2] < LimbBase \div 2
    THEN F(limbs[1] + limbs[2] * LimbBase)
    ELSE [c |-> "big", n |-> 0, d |-> 1, limbs |-> limbs]

----------------------------------------------------------------------------
(* RuntimeState *)

EmptyMap == [n \in {} |-> 0]
Put(f, k, v) == [n \in DOMAIN f \cup {k} |-> IF n = k THEN v ELSE f[n]]
Del(f, k) == [n \in DOMAIN f \ {k} |-> f[n]]
Range(s) == {s[i] : i \in DOMAIN s}

HANG  == "the evaluation does not return"
PANIC == "panic: attempt to multiply with overflow"
Aborts(res) == ~res.ok /\ res.msg \in {HANG, PANIC}

R(st, res) == [st |-> st, res |-> res]
Observe(st, event) == [st EXCEPT !.obs = @ \cup {event}]
TopFrame(st) == st.frames[Len(st.frames)]
Bound(st) == UNION Range(st.frames)
FrameAdd(st, names) == [st EXCEPT !.frames[Len(st.frames)] = @ \cup names]
FrameDel(st, names) == [st EXCEPT !.frames[Len(st.frames)] = @ \ names]

\* RuntimeState::add_global (gfirst remembers the first value stored per name)
add_global(st, name, value) ==
    [st EXCEPT !.globals = Put(@, name, value),
               !.gfirst = IF name \in DOMAIN @ THEN @ ELSE Put(@, name, value)]
\* RuntimeState::add_local
add_local(st, name, value) == [st EXCEPT !.locals = Put(@, name, value)]
\* RuntimeState::remove_local
remove_local(st, name) == [st EXCEPT !.locals = Del(@, name)]
\* RuntimeState::has_local
has_local(st, name) == name \in DOMAIN st.locals
\* RuntimeState::has_global
has_global(st, name) == name \in DOMAIN st.globals
\* RuntimeState::add_function
add_function(st, name, body) == [st EXCEPT !.functions = Put(@, name, body)]

\* the registry filled by add_default_globals_and_functions: parameter_count
builtin_functions ==
    [vec |-> 2, x |-> 1, y |-> 1, sin |-> 1, cos |-> 1, tan |-> 1, log |-> 1,
     logn |-> 2, ln |-> 1, print |-> 1, conjugate |-> 1, Re |-> 1, Im |-> 1,
     len |-> 1, rm |-> 2, ins |-> 3, mem |-> 1, clock |-> 1]

\* RuntimeState::has_function
has_function(st, name) ==
    name \in DOMAIN st.functions \/ name \in DOMAIN builtin_functions

\* the globals stored by add_default_globals_and_functions: pi and e are
\* irrational, their digits are not tracked
default_globals == [pi |-> real(Irr), e |-> real(Irr)]

\* sin, cos, tan, ln, log of num_complex: exact at the points where the
\* result is rational, untracked elsewhere; a real argument of sin, cos, tan
\* and a positive real argument of ln, log give a real result
Transcendental(fn, z) ==
    LET isreal == FEq(z.im, F(0))
        at0 == isreal /\ FEq(z.re, F(0))
        at1 == isreal /\ FEq(z.re, F(1))
    IN  CASE fn \in {"sin", "tan"} ->
                Number(IF at0 THEN F(0) ELSE Irr, IF isreal THEN F(0) ELSE Irr)
          [] fn = "cos" ->
                Number(IF at0 THEN F(1) ELSE Irr, IF isreal THEN F(0) ELSE Irr)
          [] fn \in {"ln", "log"} ->
                IF at1 THEN Number(F(0), F(0))
                ELSE IF at0 THEN Number(NInf, F(0))
                ELSE IF isreal /\ FGt(z.re, F(0)) THEN Number(Irr, F(0))
                ELSE Number(Irr, Irr)

RemoveAt(s, i) == SubSeq(s, 1, i) \o SubSeq(s, i + 2, Len(s))
InsertAt(s, i, v) == SubSeq(s, 1, i) \o <<v>> \o SubSeq(s, i + 1, Len(s))

\* the closures registered by add_default_globals_and_functions
builtin_body(name, params, st) ==
    CASE name = "vec" ->
            LET vx == expect_real(params[1], "the x component of the vector is not a number")
                vy == expect_real(params[2], "the y component of the vector is not a number")
            IN  IF ~vx.ok THEN vx ELSE IF ~vy.ok THEN vy
                ELSE Ok(Vector(vx.val, vy.val))
      [] name = "x" ->
            LET v == expect_vector(params[1], "expected vector to take x component out of")
            IN  IF ~v.ok THEN v ELSE Ok(real(v.val.x))
      [] name = "y" ->
            LET v == expect_vector(params[1], "expected vector to take y component out of")
            IN  IF ~v.ok THEN v ELSE Ok(real(v.val.y))
      [] name \in {"sin", "cos", "tan", "log", "ln"} ->
            LET z == expect_complex(params[1], "expected number")
            IN  IF ~z.ok THEN z ELSE Ok(Transcendental(name, z.val))
      [] name = "logn" ->
            LET n == expect_real(params[1], "expected real base to logarithm")
                z == expect_complex(params[2], "expected number to find logarithm of")
            IN  IF ~n.ok THEN n ELSE IF ~z.ok THEN z
                ELSE Ok(Transcendental("log", z.val))
      [] name = "print" -> Ok(params[1])
      [] name = "conjugate" ->
            LET z == expect_complex(params[1], "expected a complex number to find conjugate of")
            IN  IF ~z.ok THEN z ELSE Ok(Number(z.val.re, FNeg(z.val.im)))
      [] name = "Re" ->
            LET z == expect_complex(params[1], "expected a complex number to find real part of")
            IN  IF ~z.ok THEN z ELSE Ok(real(z.val.re))
      [] name = "Im" ->
            LET z == expect_complex(params[1], "expected a complex number to find imaginary part of")
            IN  IF ~z.ok THEN z ELSE Ok(real(z.val.im))
      [] name = "len" ->
            LET a == expect_array(params[1], "expected an array to find length of")
            IN  IF ~a.ok THEN a ELSE Ok(real(F(Len(a.val))))
      [] name = "rm" ->
            LET a == expect_array(params[1], "expected an array to remove value from")
                i == expect_real(params[2], "expected a real number to index array with in rm(x, y)")
            IN  IF ~a.ok THEN a ELSE IF ~i.ok THEN i
                ELSE IF HasFract(i.val) \/ FLt(i.val, F(0)) \/ FGe(i.val, F(Len(a.val)))
                THEN Err("cannot index array in rm(x, y)")
                ELSE Ok(Array(RemoveAt(a.val, i.val.n)))
      [] name = "ins" ->
            LET a == expect_array(params[1], "expected an array to remove value from")
                i == expect_real(params[2], "expected a real number to index array with in ins(x, y, z)")
            IN  IF ~a.ok THEN a ELSE IF ~i.ok THEN i
                ELSE IF HasFract(i.val) \/ FLt(i.val, F(0)) \/ FGe(i.val, F(Len(a.val)))
                THEN Err("cannot index array in ins(x, y, z)")
                ELSE Ok(Array(InsertAt(a.val, i.val.n, params[3])))
      [] name = "mem" -> Ok(real(F(mem_size(params[1]))))
      [] name = "clock" ->
            LET t == expect_real(params[1], "expected real number in clock(x)")
            IN  IF ~t.ok THEN t ELSE Ok(real(Irr))

\* println! of the print builtin
builtin_out(name, params, o) ==
    IF name = "print" THEN Append(o, params[1]) ELSE o

----------------------------------------------------------------------------
(* RuntimeState::evaluate.  A node is a record whose field t names the     *)
(* ParserNode variant; the result is the state left behind and Ok / Err.   *)

DeclKinds == {"VariableDeclaration", "FunctionDeclaration"}

\* the match on the operator of ParserNode::Operation
apply_operator(op, left, right) ==
    CASE op = "Add" -> add(left, right)
      [] op = "Subtract" -> sub(left, right)
      [] op = "Multiply" -> mul(left, right)
      [] op = "Divide" -> div(left, right)
      [] op = "Power" -> pow(left, right)
      [] op = "Modulo" -> rem(left, right)
      [] op = "Equals" -> Ok(equals(left, right))
      [] op = "GreaterThan" -> greater_than(left, right)
      [] op = "LessThan" -> less_than(left, right)
      [] op = "GreaterThanOrEquals" -> greater_than_or_equals(left, right)
      [] op = "LessThanOrEquals" -> less_than_or_equals(left, right)

RECURSIVE evaluate(_, _)
RECURSIVE evaluate_arguments(_, _, _, _)
RECURSIVE bind_arguments(_, _, _, _)
RECURSIVE loop_ascending(_, _, _, _, _, _, _)
RECURSIVE loop_descending(_, _, _, _, _, _, _)
RECURSIVE assign_identifiers(_, _, _, _)
RECURSIVE evaluate_nodes(_, _, _, _, _)
RECURSIVE evaluate_expressions(_, _, _, _)

\* ParserNode::Number
eval_number(node, st) ==
    R(st, Ok(IF node.imaginary THEN imaginary(node.num) ELSE real(node.num)))

\* ParserNode::Identifier.  A lookup at top level of a name that no active
\* call or loop binds, after a top-level assignment to it, is observed.
eval_identifier(node, st) ==
    LET id == node.name
        res == IF has_local(st, id) THEN Ok(st.locals[id])
               ELSE IF has_global(st, id) THEN Ok(st.globals[id])
               ELSE Err("unknown variable: " \o id)
        watched == st.depth = 0 /\ id \notin Bound(st)
                   /\ id \in DOMAIN st.lastAssign
    IN  R(IF watched
          THEN Observe(st, [ev |-> "lookup", name |-> id, res |-> res,
                            want |-> st.lastAssign[id]])
          ELSE st, res)

\* ParserNode::Operation
eval_operation(node, st) ==
    LET l == evaluate(node.left, st)
        r == evaluate(node.right, l.st)
    IN  IF ~l.res.ok THEN l
        ELSE IF ~r.res.ok THEN r
        ELSE R(r.st, apply_operator(node.op, l.res.val, r.res.val))

\* arguments.iter().map(|argument| self.evaluate(argument)).collect():
\* every argument is evaluated, the results are collected
evaluate_arguments(arguments, i, st, results) ==
    IF i > Len(arguments) THEN [st |-> st, results |-> results]
    ELSE LET a == evaluate(arguments[i], st)
         IN  IF Aborts(a.res)
             THEN [st |-> a.st, results |-> Append(results, a.res)]
             ELSE evaluate_arguments(arguments, i + 1, a.st, Append(results, a.res))

\* ParserNode::FunctionCall, builtin path
call_builtin(node, st) ==
    IF Len(node.args) # builtin_functions[node.name]
    THEN R(st, Err(node.name \o " expects a different number of parameters"))
    ELSE LET ea == evaluate_arguments(node.args, 1, st, <<>>)
             errors == {i \in DOMAIN ea.results : ~ea.results[i].ok}
             first == CHOOSE i \in errors : \A j \in errors : i <= j
             values == [i \in DOMAIN ea.results |-> ea.results[i].val]
         IN  IF errors # {} THEN R(ea.st, ea.results[first])
             ELSE R([ea.st EXCEPT !.out = builtin_out(node.name, values, @)],
                    builtin_body(node.name, values, ea.st))

\* for i in 0..arguments.len(): evaluate argument i, then bind parameter i
bind_arguments(arguments, parameters, i, st) ==
    IF i > Len(arguments) THEN R(st, Ok(real(F(0))))
    ELSE LET a == evaluate(arguments[i], st)
         IN  IF ~a.res.ok THEN a
             ELSE bind_arguments(arguments, parameters, i + 1,
                     FrameAdd(add_local(a.st, parameters[i], a.res.val),
                              {parameters[i]}))

\* the loop over the parameters with the else branch left out: every
\* parameter is removed, no shadowed local is put back
restore_parameters_removed(st, parameters, preserved_locals) ==
    [st EXCEPT !.locals = [n \in (DOMAIN @ \ Range(parameters)) |-> @[n]]]
\* for i in 0..parameters.len(): remove the parameter or restore the local
restore_parameters(st, parameters, preserved_locals) ==
    [st EXCEPT !.locals =
        [n \in (DOMAIN @ \ Range(parameters)) \cup DOMAIN preserved_locals |->
            IF n \in DOMAIN preserved_locals THEN preserved_locals[n] ELSE @[n]]]

\* an error leaves the call: the caller's depth and frames are in force again
LeaveCall(st, caller) ==
    [st EXCEPT !.depth = caller.depth, !.frames = caller.frames]

\* ParserNode::FunctionCall, user path.  A call that returns Ok is observed
\* with locals as they were when it began and as it leaves them.
call_user(node, st) ==
    LET decl == st.functions[node.name]
        parameters == decl.params
        preserved_locals ==
            [n \in Range(parameters) \cap DOMAIN st.locals |-> st.locals[n]]
        b == bind_arguments(node.args, parameters, 1,
                            [st EXCEPT !.frames = Append(@, {})])
        r == evaluate(decl.body, [b.st EXCEPT !.depth = @ + 1])
    IN  IF Len(node.args) # Len(parameters)
        THEN R(st, Err(node.name \o " expects a different number of parameters"))
        ELSE IF ~b.res.ok THEN R(LeaveCall(b.st, st), b.res)
        ELSE IF ~r.res.ok THEN R(LeaveCall(r.st, st), r.res)
        ELSE R([restore_parameters(r.st, parameters, preserved_locals)
                    EXCEPT !.in_function = FALSE,
                           !.depth = @ - 1,
                           !.frames = SubSeq(@, 1, Len(@) - 1),
                           !.obs = @ \cup
                               {[ev |-> "call", name |-> node.name,
                                 depth |-> st.depth, params |-> parameters,
                                 before |-> st.locals,
                                 after |-> restore_parameters(r.st, parameters,
                                              preserved_locals).locals]}],
               Ok(r.res.val))

\* ParserNode::FunctionCall
eval_function_call(node, st) ==
    IF ~has_function(st, node.name)
    THEN R(st, Err("unknown function: " \o node.name))
    ELSE IF node.name \in DOMAIN builtin_functions
    THEN call_builtin(node, [st EXCEPT !.in_function = TRUE])
    ELSE call_user(node, [st EXCEPT !.in_function = TRUE])

\* ParserNode::Conditional
eval_conditional(node, st) ==
    LET p == evaluate(node.predicate, st)
        predicate == expect_real(p.res.val,
                        "a predicate to a conditional expression must be a number")
    IN  IF ~p.res.ok THEN p
        ELSE IF ~predicate.ok THEN R(p.st, predicate)
        ELSE IF ~FEq(predicate.val, F(0)) THEN evaluate(node.true_expr, p.st)
        ELSE evaluate(node.false_expr, p.st)

\* ParserNode::FunctionDeclaration
eval_function_declaration(node, st) ==
    IF has_function(st, node.name)
    THEN R(st, Err("redeclared a function that already is defined: " \o node.name))
    ELSE R(add_function(st, node.name, node), Ok(real(F(0))))

\* ParserNode::VariableDeclaration.  A declaration that stores its value is
\* observed with the number of user-function calls in progress and the
\* table it wrote.
eval_variable_declaration(node, st) ==
    LET e == evaluate(node.expr, st)
    IN  IF has_global(st, node.name) \/ has_local(st, node.name)
        THEN R(st, Err("you cannot redeclare a variable: " \o node.name))
        ELSE IF ~e.res.ok THEN e
        ELSE IF e.st.in_function
        THEN R(Observe(FrameAdd(add_local(e.st, node.name, e.res.val),
                                {node.name}),
                       [ev |-> "decl", name |-> node.name, depth |-> st.depth,
                        into |-> "locals"]),
               Ok(real(F(0))))
        ELSE R(Observe(add_global(e.st, node.name, e.res.val),
                       [ev |-> "decl", name |-> node.name, depth |-> st.depth,
                        into |-> "globals"]),
               Ok(real(F(0))))

\* the largest bound of a loop of the model, and the number of passes
\* through a while loop after which a loop counts as never returning
MaxBound == 5
LoopFuel == MaxBound + 1

LoopResult(st, res, acc) == [st |-> st, res |-> res, acc |-> acc]
Visit(acc, sum, x, value) ==
    [sum |-> sum, binds |-> Append(acc.binds, x), vals |-> Append(acc.vals, value)]

\* loop_snap without its pass: the loop is left at the last value below the
\* second bound
loop_snap_skipped(st, node, second, acc) == LoopResult(st, Ok(acc.sum), acc)

\* the last pass of either while loop: the variable is bound to second_bound,
\* the body is evaluated once more and the loop is left
loop_snap(st, node, second, acc) ==
    LET r == evaluate(node.body, add_local(st, node.parameter, real(second)))
        s == add(acc.sum, r.res.val)
    IN  IF ~r.res.ok THEN LoopResult(r.st, r.res, acc)
        ELSE IF ~s.ok THEN LoopResult(r.st, s, acc)
        ELSE LoopResult(r.st, s, Visit(acc, s.val, second, r.res.val))

\* while x < second_bound { ... }
loop_ascending(st, node, x, second, step, acc, fuel) ==
    IF ~FLt(x, second) THEN LoopResult(st, Ok(acc.sum), acc)
    ELSE IF fuel = 0 THEN LoopResult(st, Err(HANG), acc)
    ELSE LET r == evaluate(node.body, add_local(st, node.parameter, real(x)))
             s == add(acc.sum, r.res.val)
         IN  IF ~r.res.ok THEN LoopResult(r.st, r.res, acc)
             ELSE IF ~s.ok THEN LoopResult(r.st, s, acc)
             ELSE IF FLt(FAdd(x, step), second)
             THEN loop_ascending(r.st, node, FAdd(x, step), second, step,
                                 Visit(acc, s.val, x, r.res.val), fuel - 1)
             ELSE loop_snap(r.st, node, second, Visit(acc, s.val, x, r.res.val))

\* while x > second_bound { ... }
loop_descending(st, node, x, second, step, acc, fuel) ==
    IF ~FGt(x, second) THEN LoopResult(st, Ok(acc.sum), acc)
    ELSE IF fuel = 0 THEN LoopResult(st, Err(HANG), acc)
    ELSE LET r == evaluate(node.body, add_local(st, node.parameter, real(x)))
             s == add(acc.sum, r.res.val)
         IN  IF ~r.res.ok THEN LoopResult(r.st, r.res, acc)
             ELSE IF ~s.ok THEN LoopResult(r.st, s, acc)
             ELSE IF FGt(FSub(x, step), second)
             THEN loop_descending(r.st, node, FSub(x, step), second, step,
                                  Visit(acc, s.val, x, r.res.val), fuel - 1)
             ELSE loop_snap(r.st, node, second, Visit(acc, s.val, x, r.res.val))

\* ParserNode::Loop (the Range node is the fields first, second, step).
\* A loop that returns Ok is observed with the values its variable took.
eval_loop(node, st) ==
    LET f == evaluate(node.first, st)
        first_bound == expect_real(f.res.val, "the first bound must be a real number")
        g == evaluate(node.second, f.st)
        second_bound == expect_real(g.res.val, "the second bound must be a real number")
        h == evaluate(node.step, g.st)
        step == expect_real(h.res.val, "the step must be a number")
        had == has_local(h.st, node.parameter)
        preserved_local == h.st.locals[node.parameter]
        fresh == node.parameter \notin TopFrame(h.st)
        acc0 == [sum |-> real(F(0)), binds |-> <<>>, vals |-> <<>>]
        st0 == FrameAdd(h.st, {node.parameter})
        lp == IF FLt(first_bound.val, second_bound.val)
              THEN loop_ascending(st0, node, first_bound.val, second_bound.val,
                                  step.val, acc0, LoopFuel)
              ELSE loop_descending(st0, node, first_bound.val, second_bound.val,
                                   step.val, acc0, LoopFuel)
        st1 == IF had THEN add_local(lp.st, node.parameter, preserved_local)
               ELSE lp.st
        st2 == IF fresh THEN FrameDel(st1, {node.parameter}) ELSE st1
    IN  IF ~f.res.ok THEN f
        ELSE IF ~first_bound.ok THEN R(f.st, first_bound)
        ELSE IF ~g.res.ok THEN g
        ELSE IF ~second_bound.ok THEN R(g.st, second_bound)
        ELSE IF ~h.res.ok THEN h
        ELSE IF ~step.ok THEN R(h.st, step)
        ELSE IF FEq(step.val, F(0)) THEN R(h.st, Err("a step cannot be 0"))
        ELSE IF ~lp.res.ok THEN R(lp.st, lp.res)
        ELSE R(Observe(st2, [ev |-> "loop", first |-> first_bound.val,
                             second |-> second_bound.val, step |-> step.val,
                             binds |-> lp.acc.binds, vals |-> lp.acc.vals,
                             val |-> lp.res.val]),
               lp.res)

ExternalMutation(id) ==
    "attempted to affect external variable " \o id \o " from within a function"

\* for identifier in identifiers.iter() { ... } of ParserNode::Assignment.
\* lastAssign remembers the value of a top-level assignment to a global that
\* no active call or loop binds, until another assignment to the name.
assign_identifiers(identifiers, i, expression, st) ==
    IF i > Len(identifiers) THEN R(st, Ok(expression))
    ELSE LET id == identifiers[i]
             forget == [st EXCEPT !.lastAssign = Del(@, id)]
             toplevel == st.depth = 0 /\ has_global(st, id) /\ id \notin Bound(st)
         IN  IF ~has_local(st, id) /\ ~has_global(st, id)
             THEN R(forget, Err("use of undefined variable: " \o id))
             ELSE IF st.in_function /\ has_global(st, id) /\ ~has_local(st, id)
             THEN R(forget, Err(ExternalMutation(id)))
             ELSE assign_identifiers(identifiers, i + 1, expression,
                    [add_local(st, id, expression) EXCEPT !.lastAssign =
                        IF toplevel THEN Put(@, id, expression) ELSE Del(@, id)])

\* ParserNode::Assignment.  An assignment whose targets are all declared is
\* observed with where it ran and how it ended.
eval_assignment(node, st) ==
    LET e == evaluate(node.expr, st)
        a == assign_identifiers(node.ids, 1, e.res.val, e.st)
        ids == Range(node.ids)
        declared == \A id \in ids : has_local(e.st, id) \/ has_global(e.st, id)
    IN  IF ~e.res.ok THEN e
        ELSE IF ~declared THEN a
        ELSE R(Observe(a.st,
                 [ev |-> "assign", depth |-> e.st.depth, ids |-> node.ids,
                  globalIds |-> ids \cap DOMAIN e.st.globals,
                  boundIds |-> ids \cap TopFrame(e.st),
                  localIds |-> ids \cap DOMAIN e.st.locals,
                  rhs |-> e.res.val, res |-> a.res]),
               a.res)

\* ParserNode::Factorial
eval_factorial(node, st) ==
    LET e == evaluate(node.expr, st)
        c == expect_complex(e.res.val, "attempted to find factorial of non-number")
        product == factorial_loop(I64Of(c.val.re.n), c.val.re.n - 1, st.overflow_checks)
    IN  IF ~e.res.ok THEN e
        ELSE IF ~c.ok THEN R(e.st, c)
        ELSE IF FEq(c.val.im, F(0)) /\ FGt(c.val.re, F(0)) /\ ~HasFract(c.val.re)
        THEN IF product.panic THEN R(e.st, Err(PANIC))
             ELSE R(e.st, Ok(real(I64ToF64(product.limbs))))
        ELSE IF FEq(c.val.re, F(0)) /\ FEq(c.val.im, F(0))
        THEN R(e.st, Ok(real(F(1))))
        ELSE R(e.st, gamma(NumOf(CAdd(c.val, Cx(F(1), F(0))))))

\* for node in nodes.into_iter() { ... } of ParserNode::Tree
evaluate_nodes(nodes, i, st, last_evaluated, new) ==
    IF i > Len(nodes) THEN [st |-> st, res |-> Ok(last_evaluated), new |-> new]
    ELSE LET r == evaluate(nodes[i], st)
         IN  IF ~r.res.ok THEN [st |-> r.st, res |-> r.res, new |-> new]
             ELSE evaluate_nodes(nodes, i + 1, r.st, r.res.val,
                     IF nodes[i].t \in DeclKinds THEN Append(new, nodes[i].name)
                     ELSE new)

\* for local in new_locals { self.remove_local(local) }
remove_new_locals(st, new) ==
    FrameDel([st EXCEPT !.locals = [n \in DOMAIN @ \ Range(new) |-> @[n]]],
             Range(new))

\* ParserNode::Tree
eval_tree(node, st) ==
    LET t == evaluate_nodes(node.nodes, 1, st, real(F(0)), <<>>)
    IN  IF node.nodes = <<>> THEN R(st, Ok(real(F(0))))
        ELSE IF node.nodes[Len(node.nodes)].t \in DeclKinds
        THEN R(st, Err("a tree must end with an expression"))
        ELSE IF ~t.res.ok THEN R(t.st, t.res)
        ELSE R(remove_new_locals(t.st, t.new), t.res)

\* for expression in expressions { ... } of ParserNode::Array
evaluate_expressions(expressions, i, st, evaluated) ==
    IF i > Len(expressions) THEN R(st, Ok(Array(evaluated)))
    ELSE LET r == evaluate(expressions[i], st)
         IN  IF ~r.res.ok THEN r
             ELSE evaluate_expressions(expressions, i + 1, r.st,
                                       Append(evaluated, r.res.val))

\* ParserNode::Array
eval_array(node, st) == evaluate_expressions(node.exprs, 1, st, <<>>)

\* format!("attempted to index array of length {} with index {}", ...): the
\* length is printed as an integer, an integer-valued double without a
\* fractional part
index_out_of_range(length, index) ==
    "attempted to index array of length " \o ToString(length)
        \o " with index " \o ToString(index.n)

\* the bounds test and the element access of ParserNode::Index without the
\* test index < 0.0
index_element_unsigned(array, index) ==
    LET as_usize == IF index.n < 0 THEN 0 ELSE index.n
    IN  IF HasFract(index)
        THEN Err("cannot index arrays with non-integers")
        ELSE IF as_usize >= Len(array)
        THEN Err(index_out_of_range(Len(array), index))
        ELSE Ok(array[as_usize + 1])
\* the fract test, the bounds test and the element access of
\* ParserNode::Index (index as usize of a negative double is 0)
index_element(array, index) ==
    LET as_usize == IF index.n < 0 THEN 0 ELSE index.n
    IN  IF HasFract(index)
        THEN Err("cannot index arrays with non-integers")
        ELSE IF as_usize >= Len(array) \/ FLt(index, F(0))
        THEN Err(index_out_of_range(Len(array), index))
        ELSE Ok(array[as_usize + 1])

\* ParserNode::Index
eval_index(node, st) ==
    LET a == evaluate(node.array, st)
        array == expect_array(a.res.val, "cannot index a non-array")
        i == evaluate(node.index, a.st)
        index == expect_real(i.res.val, "tried to index using non-number")
    IN  IF ~a.res.ok THEN a
        ELSE IF ~array.ok THEN R(a.st, array)
        ELSE IF ~i.res.ok THEN i
        ELSE IF ~index.ok THEN R(i.st, index)
        ELSE R(i.st, index_element(array.val, index.val))

\* RuntimeState::evaluate
evaluate(node, st) ==
    CASE node.t = "Number" -> eval_number(node, st)
      [] node.t = "Identifier" -> eval_identifier(node, st)
      [] node.t = "Operation" -> eval_operation(node, st)
      [] node.t = "FunctionCall" -> eval_function_call(node, st)
      [] node.t = "Conditional" -> eval_conditional(node, st)
      [] node.t = "FunctionDeclaration" -> eval_function_declaration(node, st)
      [] node.t = "VariableDeclaration" -> eval_variable_declaration(node, st)
      [] node.t = "Loop" -> eval_loop(node, st)
      [] node.t = "Assignment" -> eval_assignment(node, st)
      [] node.t = "Factorial" -> eval_factorial(node, st)
      [] node.t = "Tree" -> eval_tree(node, st)
      [] node.t = "Array" -> eval_array(node, st)
      [] node.t = "Index" -> eval_index(node, st)

----------------------------------------------------------------------------
(* syntax trees *)

Num(i) == [t |-> "Number", num |-> F(i), imaginary |-> FALSE]
Id(name) == [t |-> "Identifier", name |-> name]
Op(left, op, right) == [t |-> "Operation", left |-> left, op |-> op, right |-> right]
Call(name, args) == [t |-> "FunctionCall", name |-> name, args |-> args]
Cond(p, a, b) ==
    [t |-> "Conditional", predicate |-> p, true_expr |-> a, false_expr |-> b]
FnDecl(name, params, body) ==
    [t |-> "FunctionDeclaration", name |-> name, params |-> params, body |-> body]
VarDecl(name, expr) == [t |-> "VariableDeclaration", name |-> name, expr |-> expr]
Loop(parameter, first, second, step, body) ==
    [t |-> "Loop", parameter |-> parameter, first |-> first, second |-> second,
     step |-> step, body |-> body]
Assign(ids, expr) == [t |-> "Assignment", ids |-> ids, expr |-> expr]
Fact(expr) == [t |-> "Factorial", expr |-> expr]
Tree(nodes) == [t |-> "Tree", nodes |-> nodes]
Arr(exprs) == [t |-> "Array", exprs |-> exprs]
Idx(array, index) == [t |-> "Index", array |-> array, index |-> index]

\* the nodes a root Tree of the scoping runs is made of
DeclX == VarDecl("x", Num(1))
AssignX == Assign(<<"x">>, Num(2))
AssignXBuiltin == Assign(<<"x">>, Call("print", <<Num(3)>>))
AssignXUser == Assign(<<"x">>, Call("g", <<>>))
LookupX == Id("x")
DeclG == FnDecl("g", <<>>, Num(7))
DeclF == FnDecl("f", <<>>, Tree(<<Call("g", <<>>), Assign(<<"x">>, Num(5))>>))
DeclH == FnDecl("h", <<"p">>, Assign(<<"x">>, Id("p")))
CallF == Call("f", <<>>)
CallH == Call("h", <<Num(4)>>)
Block == Tree(<<VarDecl("y", Num(1)), Assign(<<"y">>, Num(2)), Id("y")>>)
LookupY == Id("y")
DeclNested == VarDecl("x", Tree(<<VarDecl("x", Num(1)), Num(5)>>))

TopNodes == {DeclX, AssignX, AssignXBuiltin, AssignXUser, LookupX, DeclG, DeclF,
             DeclH, CallF, CallH, Block, LookupY, DeclNested}

\* the loops of the loop runs: bounds 1..MaxBound, steps -1..MaxStep
MaxStep == 2
LoopBodies == {Id("i"), Call("print", <<Id("i")>>)}
LoopNodes ==
    {Loop("i", Num(a), Num(b), Num(s), body) :
        a \in 1..MaxBound, b \in 1..MaxBound, s \in -1..MaxStep, body \in LoopBodies}

----------------------------------------------------------------------------
(* a run: execute(root) with a root Tree whose nodes are evaluated one by   *)
(* one                                                                      *)

MaxSteps == 4
MaxLoops == 1

St == [globals |-> globals, locals |-> locals, functions |-> functions,
       in_function |-> in_function, out |-> out,
       overflow_checks |-> overflow_checks,
       depth |-> hist.depth, frames |-> hist.frames, gfirst |-> hist.gfirst,
       lastAssign |-> hist.lastAssign, obs |-> hist.obs]

NoNode == [t |-> "none"]
NoAlg == [op |-> "none", left |-> real(F(0)), right |-> real(F(0)),
          res |-> Ok(real(F(0)))]
NoFact == [pc |-> "idle", operand |-> 0, acc |-> I64Of(0), n |-> 0]
NoGamma == [pc |-> "idle", args |-> <<>>, res |-> Number(F(0), F(0))]

\* RuntimeState::new, add_default_globals_and_functions
InitRun ==
    /\ globals = default_globals
    /\ locals = EmptyMap
    /\ functions = EmptyMap
    /\ in_function = FALSE
    /\ out = <<>>
    /\ new_locals = <<>>
    /\ status = "running"
    /\ steps = 0
    /\ last = [node |-> NoNode, res |-> Ok(real(F(0)))]
    /\ hist = [depth |-> 0, frames |-> <<{}>>, gfirst |-> default_globals,
               lastAssign |-> EmptyMap, obs |-> {}]

Init ==
    /\ InitRun
    /\ overflow_checks \in BOOLEAN
    /\ alg = NoAlg
    /\ fact = NoFact
    /\ gam = NoGamma

\* one pass of the for loop of the root Tree: evaluate the node, remember a
\* declared name; an Err, a panic or an evaluation that never returns ends
\* the run
EvalNode(n, limit) ==
    /\ status = "running"
    /\ steps < limit
    /\ \E r \in {evaluate(n, St)} :
           /\ globals' = r.st.globals
           /\ locals' = r.st.locals
           /\ functions' = r.st.functions
           /\ in_function' = r.st.in_function
           /\ out' = r.st.out
           /\ hist' = [depth |-> r.st.depth, frames |-> r.st.frames,
                       gfirst |-> r.st.gfirst, lastAssign |-> r.st.lastAssign,
                       obs |-> r.st.obs]
           /\ new_locals' = IF r.res.ok /\ n.t \in DeclKinds
                            THEN Append(new_locals, n.name) ELSE new_locals
           /\ status' = IF r.res.ok THEN "running"
                        ELSE IF r.res.msg = HANG THEN "hang"
                        ELSE IF r.res.msg = PANIC THEN "panic"
                        ELSE "error"
           /\ last' = [node |-> n, res |-> r.res]
    /\ steps' = steps + 1
    /\ UNCHANGED <<alg, fact, gam, overflow_checks>>

EvalTop == \E n \in TopNodes : EvalNode(n, MaxSteps)
EvalLoop == \E n \in LoopNodes : EvalNode(n, MaxLoops)

\* the end of the root Tree, which does not end with a declaration: the
\* names it declared are removed from locals and its last value is returned
TreeExit ==
    /\ status = "running"
    /\ last.node.t \notin DeclKinds
    /\ locals' = [n \in DOMAIN locals \ Range(new_locals) |-> locals[n]]
    /\ status' = "done"
    /\ UNCHANGED <<globals, functions, in_function, out, new_locals, steps,
                   last, hist, alg, fact, gam, overflow_checks>>

Next == EvalTop \/ TreeExit
Spec == Init /\ [][Next]_vars

NextLoop == EvalLoop \/ TreeExit
SpecLoop == Init /\ [][NextLoop]_vars

----------------------------------------------------------------------------
(* properties of the scoping runs (Spec) *)

Assignments == {e \in hist.obs : e.ev = "assign"}
Lookups == {e \in hist.obs : e.ev = "lookup"}
Loops == {e \in hist.obs : e.ev = "loop"}

\* C1: an Assignment evaluated inside the dynamic extent of a user-function
\* call, with a target that is a declared global and not a parameter, loop
\* variable or local declaration of that call, fails with the
\* external-mutation error.
C1_AssignGlobalInFunctionFails ==
    \A e \in Assignments :
        (e.depth > 0 /\ e.globalIds \ e.boundIds # {}) =>
            /\ ~e.res.ok
            /\ \E id \in e.globalIds \ e.boundIds : e.res.msg = ExternalMutation(id)

\* C2: an Assignment evaluated at top level (no user-function call in
\* progress) whose targets are all declared globals succeeds and returns the
\* assigned value, whatever was evaluated before and whatever its right-hand
\* side contains.
C2_TopLevelAssignSucceeds ==
    \A e \in Assignments :
        (e.depth = 0 /\ e.globalIds = Range(e.ids)) => e.res = Ok(e.rhs)

\* C3: after a successful top-level Assignment of v to a declared global x,
\* every later top-level lookup of x (outside a call or loop binding x)
\* returns v until another Assignment to x is evaluated.
C3_AssignedValuePersists ==
    \A e \in Lookups : e.res = Ok(e.want)

\* C4: globals is write-once per name: every entry of globals holds the
\* value stored when the name was first added, and no entry is removed.
C4_GlobalsWriteOnce ==
    /\ DOMAIN globals = DOMAIN hist.gfirst
    /\ \A n \in DOMAIN globals : globals[n] = hist.gfirst[n]

----------------------------------------------------------------------------
(* properties of the loop runs (SpecLoop) *)

Count(s, v) == Cardinality({i \in DOMAIN s : s[i] = v})

\* C5: a Loop with real bounds and a non-zero step evaluates its body with
\* the variable bound to the second bound exactly once, as the last
\* iteration, whatever the relation between the bounds and whether or not
\* the step divides their distance.
C5_EndBoundVisitedOnceLast ==
    /\ status # "hang"
    /\ \A e \in Loops :
          /\ e.binds # <<>>
          /\ e.binds[Len(e.binds)] = e.second
          /\ Count(e.binds, e.second) = 1

RECURSIVE Ascending(_, _, _)
Ascending(x, second, s) ==
    IF x < second THEN <<F(x)>> \o Ascending(x + s, second, s) ELSE <<F(second)>>
RECURSIVE Descending(_, _, _)
Descending(x, second, s) ==
    IF x > second THEN <<F(x)>> \o Descending(x - s, second, s) ELSE <<F(second)>>
RECURSIVE SumOf(_)
SumOf(vals) ==
    IF vals = <<>> THEN Cx(F(0), F(0))
    ELSE CAdd(SumOf(SubSeq(vals, 1, Len(vals) - 1)), CxOf(vals[Len(vals)]))

IsLoopOver(node, a, b, s) ==
    /\ node.t = "Loop"
    /\ node.first = Num(a) /\ node.second = Num(b) /\ node.step = Num(s)

\* C6: for integer bounds first < second and a positive integer step s a
\* Loop binds its variable to first, first+s, ... (below second) and then to
\* second (symmetrically first, first-s, ... then second when first >
\* second), it returns the sum of the body's values over that sequence, and
\* the loop over 1..5 step 1 whose body is its variable returns 15.
C6_LoopSequenceAndSum ==
    /\ \A e \in Loops :
          (e.step.n > 0 /\ e.first # e.second) =>
              /\ e.binds = IF e.first.n < e.second.n
                           THEN Ascending(e.first.n, e.second.n, e.step.n)
                           ELSE Descending(e.first.n, e.second.n, e.step.n)
              /\ e.val = NumOf(SumOf(e.vals))
    /\ \A a, b \in 1..MaxBound, s \in 1..MaxStep :
          (a # b /\ IsLoopOver(last.node, a, b, s)) => last.res.ok
    /\ (last.node = Loop("i", Num(1), Num(5), Num(1), Id("i")))
          => last.res = Ok(real(F(15)))

C6_Witness ==
    /\ last.node = Loop("i", Num(1), Num(5), Num(1), Id("i"))
    /\ last.res = Ok(real(F(15)))
    /\ \E e \in Loops : e.binds = <<F(1), F(2), F(3), F(4), F(5)>>

----------------------------------------------------------------------------
(* the value algebra on its own (SpecAlg): two operands are drawn, one     *)
(* operator is applied                                                      *)

MaxComp == 2
MaxArrLen == 2
Components == {F(i) : i \in -1..MaxComp} \cup {Fin(1, 2), NaN}
Numbers == {Number(re, im) : re \in Components, im \in Components}
Vectors == {Vector(vx, vy) : vx \in Components, vy \in Components}
Elements == {real(F(1)), Vector(F(1), F(2)), Array(<<>>), Array(<<real(F(1))>>)}
Arrays == {Array(els) : els \in UNION {[1..n -> Elements] : n \in 0..MaxArrLen}}
Values == Numbers \cup Vectors \cup Arrays
Operators == {"Add", "Subtract", "Multiply", "Divide", "Power", "Modulo",
              "Equals", "GreaterThan", "LessThan", "GreaterThanOrEquals",
              "LessThanOrEquals"}

InitAlg ==
    /\ InitRun
    /\ overflow_checks = FALSE
    /\ fact = NoFact
    /\ gam = NoGamma
    /\ alg \in {[op |-> "none", left |-> a, right |-> b, res |-> Ok(real(F(0)))] :
                    a \in Values, b \in Values}

\* the arm of ParserNode::Operation for one operator
Apply(op) ==
    /\ alg.op = "none"
    /\ alg' = [alg EXCEPT !.op = op, !.res = apply_operator(op, alg.left, alg.right)]
    /\ UNCHANGED <<globals, locals, functions, in_function, out, new_locals,
                   status, steps, last, hist, fact, gam, overflow_checks>>

NextAlg == \E op \in Operators : Apply(op)
SpecAlg == InitAlg /\ [][NextAlg]_vars

ArrayOperand == IF alg.left.k = "Arr" THEN alg.left ELSE alg.right
WithArray == alg.op = "Add" /\ (alg.left.k = "Arr" \/ alg.right.k = "Arr")

\* C7 as stated: `+` with an Array on either side succeeds and gives an Array
\* one element longer than the array operand whose last element is the right
\* operand of the `+` (for Array+Array the whole right-hand array).
C7_AppendsRightOperand ==
    WithArray =>
        /\ alg.res.ok
        /\ alg.res.val.k = "Arr"
        /\ Len(alg.res.val.els) = Len(ArrayOperand.els) + 1
        /\ alg.res.val.els[Len(alg.res.val.els)] = alg.right

\* C7 amended: `+` with an Array on either side succeeds and gives an Array
\* one element longer than the array operand; its last element is the right
\* operand when the left operand is an Array (for Array+Array the whole
\* right-hand array, nested) and the left operand, the Number or Vector,
\* when only the right operand is an Array.
C7_AppendsOtherOperand ==
    WithArray =>
        /\ alg.res.ok
        /\ alg.res.val.k = "Arr"
        /\ Len(alg.res.val.els) = Len(ArrayOperand.els) + 1
        /\ alg.res.val.els[Len(alg.res.val.els)] =
              IF alg.left.k = "Arr" THEN alg.right ELSE alg.left

C7_Witness ==
    /\ alg.op = "Add"
    /\ alg.left = real(F(2))
    /\ alg.right = Array(<<real(F(1))>>)
    /\ alg.res = Ok(Array(<<real(F(1)), real(F(2))>>))

NumberOperand == IF alg.left.k = "Num" THEN alg.left ELSE alg.right
VectorOperand == IF alg.left.k = "Vec" THEN alg.left ELSE alg.right
NumberWithVector ==
    \/ alg.left.k = "Num" /\ alg.right.k = "Vec"
    \/ alg.left.k = "Vec" /\ alg.right.k = "Num"
Scaled ==
    CASE alg.op = "Multiply" ->
            Vector(FMul(VectorOperand.x, NumberOperand.re),
                   FMul(VectorOperand.y, NumberOperand.re))
      [] alg.op = "Divide" ->
            Vector(FDiv(VectorOperand.x, NumberOperand.re),
                   FDiv(VectorOperand.y, NumberOperand.re))
      [] alg.op = "Power" ->
            Vector(FPow(VectorOperand.x, NumberOperand.re),
                   FPow(VectorOperand.y, NumberOperand.re))
ScalesVector ==
    /\ alg.res.ok <=> FEq(NumberOperand.im, F(0))
    /\ alg.res.ok => alg.res.val = Scaled

\* C8 as stated: for *, / and ^ and either order of one Number and one
\* Vector the operation succeeds exactly when the Number has zero imaginary
\* part, and the result is the Vector with both components multiplied by /
\* divided by / raised to the Number's real part.
C8_ScalesInEitherOrder ==
    (alg.op \in {"Multiply", "Divide", "Power"} /\ NumberWithVector) => ScalesVector

\* C8 amended: the statement holds for * and / in either order and for ^
\* with the Vector on the left; Number ^ Vector always fails.
C8_ScalesExceptNumberPowVector ==
    (alg.op \in {"Multiply", "Divide", "Power"} /\ NumberWithVector) =>
        IF alg.op = "Power" /\ alg.left.k = "Num"
        THEN ~alg.res.ok
        ELSE ScalesVector

C8_Witness ==
    /\ alg.op = "Divide"
    /\ alg.left = real(F(2))
    /\ alg.right = Vector(F(1), F(-1))
    /\ alg.res = Ok(Vector(Fin(1, 2), Fin(-1, 2)))

\* C10: `==` never fails and returns Number(1) or Number(0): 0 for values of
\* different kinds, 0 for two Arrays whatever their contents (an array
\* compared with itself included), and 1 for two Numbers or two Vectors
\* exactly when both components are equal as doubles.
C10_EqualsTotal ==
    alg.op = "Equals" =>
        /\ alg.res.ok
        /\ alg.res.val \in {real(F(1)), real(F(0))}
        /\ alg.left.k # alg.right.k => alg.res.val = real(F(0))
        /\ (alg.left.k = "Arr" /\ alg.right.k = "Arr") => alg.res.val = real(F(0))
        /\ (alg.left.k = "Num" /\ alg.right.k = "Num") =>
              (alg.res.val = real(F(1)) <=>
                  (FEq(alg.left.re, alg.right.re) /\ FEq(alg.left.im, alg.right.im)))
        /\ (alg.left.k = "Vec" /\ alg.right.k = "Vec") =>
              (alg.res.val = real(F(1)) <=>
                  (FEq(alg.left.x, alg.right.x) /\ FEq(alg.left.y, alg.right.y)))

C10_Witness ==
    /\ alg.op = "Equals"
    /\ alg.left = Array(<<real(F(1))>>)
    /\ alg.right = alg.left
    /\ alg.res = Ok(real(F(0)))

----------------------------------------------------------------------------
(* the integer branch of ParserNode::Factorial on its own (SpecFact): the   *)
(* operand is a real integer, the loop runs one multiplication at a time    *)

MaxOperand == 22

InitFact ==
    /\ InitRun
    /\ overflow_checks \in BOOLEAN
    /\ alg = NoAlg
    /\ gam = NoGamma
    /\ fact \in {[pc |-> "enter", operand |-> c, acc |-> I64Of(0), n |-> 0] :
                    c \in 0..MaxOperand}

FactFrame == UNCHANGED <<globals, locals, functions, in_function, out,
                         new_locals, status, steps, last, hist, alg, gam,
                         overflow_checks>>

\* c.im == 0.0 && c.re > 0.0 && c.re.fract() == 0.0: factorial = c.re as i64,
\* n ranges over (2..c.re as i64).rev(); c == 0 returns 1
FactEnter ==
    /\ fact.pc = "enter"
    /\ fact' = IF fact.operand > 0
               THEN [fact EXCEPT !.pc = "loop", !.acc = I64Of(fact.operand),
                                 !.n = fact.operand - 1]
               ELSE [fact EXCEPT !.pc = "done", !.acc = I64Of(1)]
    /\ FactFrame

\* factorial *= n
FactMultiply ==
    /\ fact.pc = "loop"
    /\ fact.n >= 2
    /\ fact' = IF overflow_checks /\ Overflows(fact.acc, fact.n)
               THEN [fact EXCEPT !.pc = "panic"]
               ELSE [fact EXCEPT !.acc = WrapMul(fact.acc, fact.n), !.n = fact.n - 1]
    /\ FactFrame

\* return Ok(Value::real(factorial as f64))
FactReturn ==
    /\ fact.pc = "loop"
    /\ fact.n < 2
    /\ fact' = [fact EXCEPT !.pc = "done"]
    /\ FactFrame

NextFact == FactEnter \/ FactMultiply \/ FactReturn
SpecFact == InitFact /\ [][NextFact]_vars

RECURSIVE Trim(_)
Trim(limbs) ==
    IF Len(limbs) > 1 /\ limbs[Len(limbs)] = 0
    THEN Trim(SubSeq(limbs, 1, Len(limbs) - 1)) ELSE limbs
\* n! as an integer of any size
RECURSIVE Factorial(_)
Factorial(n) == IF n <= 1 THEN <<1>> ELSE Trim(MulSmall(Factorial(n - 1), n, 0))
\* the i64 accumulator is non-negative and its value is the integer big
I64Is(limbs, big) == limbs[I64Limbs] < LimbBase \div 2 /\ Trim(limbs) = big

\* C9: for every real, positive, integer-valued operand n the Factorial node
\* returns exactly n! (accumulated in a 64-bit signed integer and cast back
\* to a real Number), and operand 0 returns 1.
C9_FactorialExact ==
    /\ fact.pc # "panic"
    /\ fact.pc = "done" => I64Is(fact.acc, Factorial(fact.operand))

----------------------------------------------------------------------------
(* the Index runs (SpecIndex): a root Tree of Index nodes over array        *)
(* literals [10, 20, ...] and other bases                                   *)

MaxLen == 3
MaxIndexSteps == 2

ArrayOf(n) == Arr([k \in 1..n |-> Num(10 * k)])
Half == Op(Num(1), "Divide", Num(2))
ImaginaryOne == [t |-> "Number", num |-> F(1), imaginary |-> TRUE]
IndexBases ==
    {ArrayOf(n) : n \in 0..MaxLen} \cup {Num(7), Call("vec", <<Num(1), Num(2)>>)}
IndexExprs ==
    {Num(i) : i \in -2..(MaxLen + 1)} \cup {Half, ImaginaryOne, ArrayOf(1)}
IndexNodes == {Idx(b, i) : b \in IndexBases, i \in IndexExprs}

EvalIndex == \E n \in IndexNodes : EvalNode(n, MaxIndexSteps)
NextIndex == EvalIndex \/ TreeExit
SpecIndex == Init /\ [][NextIndex]_vars

\* C11: an Index node over an Array of length n with a real integer-valued
\* index i returns element i when 0 <= i < n and otherwise fails with a
\* message naming n and i ([10,20,30] at 1 is 20; at 3 and at -1 it fails
\* citing length 3); a non-integer index and a non-Array base fail.
C11_IndexContract ==
    last.node.t = "Index" =>
        /\ \A n \in 0..MaxLen, i \in -2..(MaxLen + 1) :
              (last.node.array = ArrayOf(n) /\ last.node.index = Num(i)) =>
                  IF 0 <= i /\ i < n
                  THEN last.res = Ok(real(F(10 * (i + 1))))
                  ELSE /\ ~last.res.ok
                       /\ last.res.msg =
                            "attempted to index array of length " \o ToString(n)
                                \o " with index " \o ToString(i)
        /\ last.node.index = Half => ~last.res.ok
        /\ last.node.array.t # "Array" => ~last.res.ok
        /\ last.node = Idx(ArrayOf(3), Num(3)) =>
              last.res = Err("attempted to index array of length 3 with index 3")
        /\ last.node = Idx(ArrayOf(3), Num(-1)) =>
              last.res = Err("attempted to index array of length 3 with index -1")

C11_Witness ==
    /\ last.node = Idx(ArrayOf(3), Num(1))
    /\ last.res = Ok(real(F(20)))

----------------------------------------------------------------------------
(* the call runs (SpecCall): a root Tree of declarations, builtin calls and *)
(* user-function calls                                                      *)

MaxCallSteps == 4

DeclA == VarDecl("a", Num(7))                             \* let a = 7
AssignA == Assign(<<"a">>, Num(2))                        \* a = 2
DeclSecond == FnDecl("second", <<"a", "b">>, Id("b"))     \* second(a, b) = b
CallSecond == Call("second", <<Num(1), Id("a")>>)         \* second(1, a)
\* r(p) = p ? r(p - 1) : 0
DeclR == FnDecl("r", <<"p">>,
            Cond(Id("p"), Call("r", <<Op(Id("p"), "Subtract", Num(1))>>), Num(0)))
CallR == Call("r", <<Num(2)>>)                            \* r(2)
DeclSet == FnDecl("set", <<"a">>, Assign(<<"a">>, Num(9))) \* set(a) = (a = 9)
CallSet == Call("set", <<Num(3)>>)                        \* set(3)
\* k() = { g(); let w = 1; w }
DeclK == FnDecl("k", <<>>,
            Tree(<<Call("g", <<>>), VarDecl("w", Num(1)), Id("w")>>))
CallK == Call("k", <<>>)                                  \* k()
\* m() = { let v = 1; v }
DeclM == FnDecl("m", <<>>, Tree(<<VarDecl("v", Num(1)), Id("v")>>))
CallM == Call("m", <<>>)                                  \* m()
DeclZ == VarDecl("z", Call("print", <<Num(1)>>))          \* let z = print(1)
CallPrint == Call("print", <<Num(3)>>)                    \* print(3)
\* vec(nope, print(1)): the first argument fails, the second one prints
CallVecUnknown == Call("vec", <<Id("nope"), Call("print", <<Num(1)>>)>>)

CallNodes == {DeclA, AssignA, DeclSecond, CallSecond, DeclR, CallR, DeclSet,
              CallSet, DeclG, DeclK, CallK, DeclM, CallM, DeclZ, CallPrint,
              CallVecUnknown}

EvalCall == \E n \in CallNodes : EvalNode(n, MaxCallSteps)
NextCall == EvalCall \/ TreeExit
SpecCall == Init /\ [][NextCall]_vars

Declarations == {e \in hist.obs : e.ev = "decl"}
Calls == {e \in hist.obs : e.ev = "call"}

\* C12: a VariableDeclaration stores its value in locals exactly when it is
\* evaluated inside the dynamic extent of a user-function call and in
\* globals otherwise, whatever was evaluated before it or in its
\* initializer.
C12_DeclarationTable ==
    \A e \in Declarations : (e.into = "locals") <=> (e.depth > 0)

\* C13: evaluating a FunctionCall to a builtin function leaves in_function
\* as it was before the call, whether the call returns Ok or an error.
C13_BuiltinKeepsFlag ==
    [][(/\ steps' = steps + 1
        /\ last'.node.t = "FunctionCall"
        /\ last'.node.name \in DOMAIN builtin_functions)
          => in_function' = in_function]_vars

\* C14: after a successful user-function call the locals entry of every
\* parameter name of the called function is what it was immediately before
\* the call (the same value, or absent), for nested and recursive calls too.
C14_ParametersRestored ==
    \A e \in Calls : \A p \in Range(e.params) :
        /\ (p \in DOMAIN e.after) <=> (p \in DOMAIN e.before)
        /\ p \in DOMAIN e.before => e.after[p] = e.before[p]

\* the inner call r(1) of r(2) began with p = 2 in locals and left it so
C14_Witness ==
    \E e \in Calls :
        /\ e.name = "r" /\ e.depth = 1
        /\ "p" \in DOMAIN e.before /\ e.before["p"] = real(F(2))
        /\ "p" \in DOMAIN e.after /\ e.after["p"] = real(F(2))

\* C16: in a builtin call the first argument whose evaluation fails aborts
\* the call: its error is the result and no argument to its right is
\* evaluated (here the print to its right leaves no output).
C16_FirstErrorAborts ==
    [][(steps' = steps + 1 /\ last'.node = CallVecUnknown)
          => (last'.res = Err("unknown variable: nope") /\ out' = out)]_vars

Resolve(name) == IF name \in DOMAIN locals THEN locals[name] ELSE globals[name]

\* C19: the arguments of a user-function call are evaluated against the
\* caller's bindings: second(1, a) returns the caller's value of a.
C19_ArgumentsSeeCaller ==
    [][(/\ steps' = steps + 1
        /\ last'.node = CallSecond
        /\ last'.res.ok
        /\ "a" \in DOMAIN locals \cup DOMAIN globals)
          => last'.res.val = Resolve("a")]_vars

----------------------------------------------------------------------------
(* frame effects of the Loop (SpecLoop) and of the exit of the root Tree    *)
(* (Spec)                                                                   *)

\* C15: after a Loop that returns Ok the locals entry of the loop variable
\* is what it was before the loop: the prior value if the name was bound,
\* absent if it was not.
C15_LoopVariableRestored ==
    [][(steps' = steps + 1 /\ last'.node.t = "Loop" /\ last'.res.ok) =>
          /\ (last'.node.parameter \in DOMAIN locals')
                <=> (last'.node.parameter \in DOMAIN locals)
          /\ last'.node.parameter \in DOMAIN locals =>
                locals'[last'.node.parameter] = locals[last'.node.parameter]]_vars

\* C17: at the exit of a block the cleanup of a name whose declaration in
\* the block was stored in globals or in functions changes nothing: locals,
\* globals and functions are as before the exit.
C17_CleanupIsNoOp ==
    [][(status = "running" /\ status' = "done") =>
          /\ globals' = globals /\ functions' = functions
          /\ \A n \in Range(new_locals) \cap (DOMAIN globals \cup DOMAIN functions) :
                (n \in DOMAIN locals') <=> (n \in DOMAIN locals)]_vars

\* C20: a Loop with real bounds, a non-zero real step of either sign and a
\* body that returns Ok returns after finitely many iterations; a step of
\* exactly 0, and no other step, is rejected with an error.
C20_LoopTerminates ==
    last.node.t = "Loop" =>
        /\ status # "hang"
        /\ (last.node.step = Num(0)) <=> ~last.res.ok
        /\ last.node.step = Num(0) => last.res = Err("a step cannot be 0")

----------------------------------------------------------------------------
(* Value::gamma call by call (SpecGamma): args holds the argument of the    *)
(* first call and of every recursive call made so far                       *)

MaxHalves == 6
MaxReflect == 3

GammaInputs ==
    {Cx(Fin(n, 2), im) : n \in -MaxHalves..MaxHalves, im \in {F(0), F(1)}}
        \cup {Cx(Irr, F(0))}

InitGamma ==
    /\ InitRun
    /\ overflow_checks = FALSE
    /\ alg = NoAlg
    /\ fact = NoFact
    /\ gam = NoGamma

GammaFrame == UNCHANGED <<globals, locals, functions, in_function, out,
                          new_locals, status, steps, last, hist, alg, fact,
                          overflow_checks>>

\* Value::Number(c).gamma() called from outside
GammaEnter ==
    /\ gam.pc = "idle"
    /\ \E z \in GammaInputs : gam' = [gam EXCEPT !.pc = "call", !.args = <<z>>]
    /\ GammaFrame

\* if c.re < 0.5: the recursive call, on pi / (sin(pi c) * (1 - c)).  The
\* test of an untracked real part can go either way.
GammaReflect ==
    /\ gam.pc = "call"
    /\ Len(gam.args) <= MaxReflect
    /\ \E c \in {gam.args[Len(gam.args)]} :
          /\ c.re.c = "irr" \/ below_half(c)
          /\ gam' = [gam EXCEPT !.args = Append(@, reflection(c))]
    /\ GammaFrame

\* else: the Lanczos sum; its value is returned through every pending call
GammaLanczos ==
    /\ gam.pc = "call"
    /\ \E c \in {gam.args[Len(gam.args)]} :
          /\ c.re.c = "irr" \/ ~below_half(c)
          /\ gam' = [gam EXCEPT !.pc = "done", !.res = lanczos(c)]
    /\ GammaFrame

NextGamma == GammaEnter \/ GammaReflect \/ GammaLanczos
SpecGamma == InitGamma /\ [][NextGamma]_vars

Tracked(c) == c.re.c # "irr" /\ c.im.c # "irr"

\* C18: for a Number z with real part < 0.5 gamma makes exactly one
\* recursive call, with the argument 1 - z; for a real part >= 0.5 it makes
\* none.  (An argument whose value the model does not track is not judged.)
C18_GammaReflection ==
    /\ \A i \in 2..Len(gam.args) :
          Tracked(gam.args[i]) =>
              /\ i = 2
              /\ below_half(gam.args[1])
              /\ gam.args[2] = CSub(Cx(F(1), F(0)), gam.args[1])
    /\ (gam.pc = "done" /\ Tracked(gam.args[1])) =>
          (below_half(gam.args[1]) <=> Len(gam.args) >= 2)

=============================================================================
